---- MODULE Spec2Model ----
(***************************************************************************)
(* A model of the statistics access gateway of the Dodo telegram bot:      *)
(*   - src/src/keyboards/markups.py : UnitsMarkup, the unit selection      *)
(*     keyboard (one switch button per unit, plus the two batch buttons);  *)
(*   - src/src/services/api.py      : request_to_api and the statistics    *)
(*     operations built on it, async_client, get_access_token, get_cookies.*)
(* Three specifications share the variables:                               *)
(*   SpecMarkup      constructs one UnitsMarkup from drawn arguments;      *)
(*   Spec            one caller runs statistics calls and credential       *)
(*                   blocks, the remote side answering in every way;       *)
(*   SpecConcurrent  several tasks run statistics calls, interleaved at    *)
(*                   their suspend points.                                 *)
(***************************************************************************)
EXTENDS Integers, Sequences, FiniteSets, TLC

VARIABLES
    params,           \* the arguments handed to UnitsMarkup(...)
    self,             \* the UnitsMarkup object: its fields and its keyboard
    calls,            \* per task: the coroutine frame of the running operation
    sessions,         \* per httpx.AsyncClient: "unopened" | "open" | "closed"
    net               \* per session: the request on the wire and its outcome

vars == <<params, self, calls, sessions, net>>

----------------------------------------------------------------------------
(* Bounds of the model *)

MaxUnits == 3         \* longest all_units sequence drawn
MaxUnitId == 3        \* unit ids are drawn from 0..MaxUnitId
MaxTasks == 2         \* tasks running statistics calls concurrently
MaxCallsPerClient == 2 \* credential calls a caller makes on one async_client

----------------------------------------------------------------------------
(* keyboards/markups.py : UnitsMarkup *)

row_width == 2

UnitIds == 0..MaxUnitId
UnitNames == {"A", "B"}
Units == [id : UnitIds, name : UnitNames]
ReportTypes == {"STATISTICS"}
Regions == {"Moscow"}

NoObject == [built |-> FALSE]

SeqsUpTo(S, n) == UNION {[1..k -> S] : k \in 0..n}

\* Python's any(iterable_of_int): some element is truthy, and an int is
\* truthy exactly when it is not 0.
any(ids) == \E x \in ids : x # 0

SwitchUnitStatusButton(report_type, region, unit_id, unit_name, is_unit_enabled) ==
    [kind |-> "SwitchUnitStatus", report_type |-> report_type, region |-> region,
     unit_id |-> unit_id, unit_name |-> unit_name, is_unit_enabled |-> is_unit_enabled]

EnableAllUnitsByRegionButton(report_type, region) ==
    [kind |-> "EnableAllUnitsByRegion", report_type |-> report_type, region |-> region]

DisableAllUnitsByRegionButton(report_type, region) ==
    [kind |-> "DisableAllUnitsByRegion", report_type |-> report_type, region |-> region]

\* InlineKeyboardMarkup.insert: the button joins the last row while that row
\* is shorter than row_width, and starts a new row otherwise.
insert(keyboard, button) ==
    IF Len(keyboard) > 0 /\ Len(keyboard[Len(keyboard)]) < row_width
    THEN [keyboard EXCEPT ![Len(keyboard)] = Append(@, button)]
    ELSE Append(keyboard, <<button>>)

\* InlineKeyboardMarkup.row: the buttons given become one new row, also when
\* none is given.
row(keyboard, buttons) == Append(keyboard, buttons)

all_unit_ids(obj) == {obj.all_units[k].id : k \in DOMAIN obj.all_units}

disabled_unit_ids_without_difference(obj) == all_unit_ids(obj)

disabled_unit_ids(obj) == all_unit_ids(obj) \ obj.enabled_unit_ids

is_unit_enabled_negated(obj, unit) == unit.id \notin obj.enabled_unit_ids

is_unit_enabled(obj, unit) == unit.id \in obj.enabled_unit_ids

\* The loop of __add_unit_operations, from the k-th unit on.
RECURSIVE add_unit_operations_from(_, _, _)
add_unit_operations_from(obj, keyboard, k) ==
    IF k > Len(obj.all_units) THEN keyboard
    ELSE LET unit == obj.all_units[k]
             button == SwitchUnitStatusButton(obj.report_type, obj.region, unit.id,
                                              unit.name, is_unit_enabled(obj, unit))
         IN add_unit_operations_from(obj, insert(keyboard, button), k + 1)

add_unit_operations(obj) ==
    [obj EXCEPT !.inline_keyboard = add_unit_operations_from(obj, @, 1)]

add_batch_operations(obj) ==
    LET row0 == <<>>
        row1 == IF any(disabled_unit_ids(obj))
                THEN Append(row0, EnableAllUnitsByRegionButton(obj.report_type, obj.region))
                ELSE row0
        row2 == IF any(obj.enabled_unit_ids)
                THEN Append(row1, DisableAllUnitsByRegionButton(obj.report_type, obj.region))
                ELSE row1
    IN [obj EXCEPT !.inline_keyboard = row(@, row2)]

\* UnitsMarkup.__init__: the fields, then the unit buttons, then the batch row.
UnitsMarkupObject(report_type, region, enabled_unit_ids, all_units) ==
    LET fields == [built |-> TRUE, report_type |-> report_type, region |-> region,
                   all_units |-> all_units, enabled_unit_ids |-> enabled_unit_ids,
                   inline_keyboard |-> <<>>]
    IN add_batch_operations(add_unit_operations(fields))

UnitsMarkup ==
    /\ ~self.built
    /\ self' = UnitsMarkupObject(params.report_type, params.region,
                                 params.enabled_unit_ids, params.all_units)
    /\ UNCHANGED <<params, calls, sessions, net>>

----------------------------------------------------------------------------
(* services/api.py : the values exchanged *)

Tasks == 1..MaxTasks
\* The one caller of the sequential specification: the first task.
Caller == CHOOSE t \in Tasks : \A u \in Tasks : t <= u

None == [none |-> TRUE]

Return(value) == [kind |-> "return", value |-> value]
Raise(exc) == [kind |-> "raise", exc |-> exc]

\* The five RequestByCookiesAndUnitIds bindings: _url and _response_model,
\* assigned once by __init__ and only read afterwards.
Bindings ==
    [get_kitchen_performance_statistics |->
        [url |-> "/v1/statistics/kitchen/performance",
         response_model |-> "KitchenPerformanceStatistics"],
     get_kitchen_production_statistics |->
        [url |-> "/v1/statistics/production/kitchen",
         response_model |-> "KitchenProductionStatistics"],
     get_delivery_performance_statistics |->
        [url |-> "/v1/statistics/delivery/performance",
         response_model |-> "DeliveryPerformanceStatistics"],
     get_heated_shelf_statistics |->
        [url |-> "/v1/statistics/delivery/heated-shelf",
         response_model |-> "HeatedShelfStatistics"],
     get_couriers_statistics |->
        [url |-> "/v1/statistics/delivery/couriers",
         response_model |-> "CouriersStatistics"]]

BindingOperations == DOMAIN Bindings

AdHocOperations ==
    {"get_revenue_statistics", "get_being_late_certificates_statistics",
     "get_bonus_system_statistics", "get_delivery_speed_statistics",
     "get_orders_handover_time_statistics"}

StatisticsOperations == BindingOperations \cup AdHocOperations

CredentialOperations == {"get_access_token", "get_cookies"}

\* The arguments a caller may hand to each operation (two choices each).
CookieJars == {"cookies-1", "cookies-2"}
Tokens == {"token-1", "token-2"}
UnitIdLists == {<<1>>, <<2, 3>>}
UnitIdAndNameLists == {<<[id |-> 1, name |-> "A"]>>, <<[id |-> 2, name |-> "B"]>>}
UnitUuidLists == {<<[hex |-> "0a"]>>, <<[hex |-> "0b"], [hex |-> "0c"]>>}
AccountNames == {"office", "ghost"}

ArgumentsOf(op) ==
    CASE op \in BindingOperations ->
            {[cookies |-> CHOOSE c \in CookieJars : TRUE, unit_ids |-> u] : u \in UnitIdLists}
      [] op = "get_revenue_statistics" ->
            {[unit_ids |-> u] : u \in UnitIdLists}
      [] op \in {"get_being_late_certificates_statistics", "get_bonus_system_statistics"} ->
            {[cookies |-> c, unit_ids_and_names |-> CHOOSE u \in UnitIdAndNameLists : TRUE]
                : c \in CookieJars}
      [] op \in {"get_delivery_speed_statistics", "get_orders_handover_time_statistics"} ->
            {[token |-> CHOOSE k \in Tokens : TRUE, unit_uuids |-> u] : u \in UnitUuidLists}
      [] op \in CredentialOperations ->
            {[account_name |-> a] : a \in AccountNames}

\* [unit_uuid.hex for unit_uuid in unit_uuids]
RECURSIVE hex_list(_)
hex_list(unit_uuids) ==
    IF unit_uuids = <<>> THEN <<>>
    ELSE <<Head(unit_uuids).hex>> \o hex_list(Tail(unit_uuids))

\* The request each operation builds from its arguments: what it passes to
\* request_to_api (statistics) or to client.get (credentials).
BuildRequest(op, a) ==
    CASE op \in BindingOperations ->
            [method |-> "POST", url |-> Bindings[op].url, params |-> None,
             body |-> [cookies |-> a.cookies, unit_ids |-> a.unit_ids]]
      [] op = "get_revenue_statistics" ->
            [method |-> "GET", url |-> "/v1/statistics/revenue",
             params |-> [unit_ids |-> a.unit_ids], body |-> None]
      [] op = "get_being_late_certificates_statistics" ->
            [method |-> "POST", url |-> "/v1/statistics/being-late-certificates",
             params |-> None,
             body |-> [cookies |-> a.cookies, units |-> a.unit_ids_and_names]]
      [] op = "get_bonus_system_statistics" ->
            [method |-> "POST", url |-> "/v1/statistics/bonus-system", params |-> None,
             body |-> [cookies |-> a.cookies, units |-> a.unit_ids_and_names]]
      [] op = "get_delivery_speed_statistics" ->
            [method |-> "GET", url |-> "/v2/statistics/delivery/speed",
             params |-> [token |-> a.token, unit_uuids |-> hex_list(a.unit_uuids)],
             body |-> None]
      [] op = "get_orders_handover_time_statistics" ->
            [method |-> "GET", url |-> "/v2/statistics/production/handover-time",
             params |-> [token |-> a.token, unit_uuids |-> hex_list(a.unit_uuids),
                         sales_channels |-> <<"dine_in">>],
             body |-> None]
      [] op = "get_access_token" ->
            [method |-> "GET", url |-> "/auth/token/",
             params |-> [account_name |-> a.account_name], body |-> None]
      [] op = "get_cookies" ->
            [method |-> "GET", url |-> "/auth/cookies/",
             params |-> [account_name |-> a.account_name], body |-> None]

\* The payload type each statistics operation declares for its response.
ResponseModel(op) ==
    CASE op \in BindingOperations -> Bindings[op].response_model
      [] op = "get_revenue_statistics" -> "RevenueStatistics"
      [] op = "get_being_late_certificates_statistics" ->
            "list[UnitBeingLateCertificatesTodayAndWeekBefore]"
      [] op = "get_bonus_system_statistics" -> "list[UnitBonusSystem]"
      [] op = "get_delivery_speed_statistics" -> "list[UnitDeliverySpeed]"
      [] op = "get_orders_handover_time_statistics" -> "list[UnitOrdersHandoverTime]"

----------------------------------------------------------------------------
(* The remote side: every way an exchange can end *)

Statuses == {200, 404, 500}

StatisticsShapes == {ResponseModel(op) : op \in StatisticsOperations} \cup {"ErrorDetail"}
CredentialShapes == {"TokenRecord", "CookieMapping", "ErrorDetail"}

StoredTokens == [a \in AccountNames |-> IF a = "office" THEN "at-office" ELSE "at-ghost"]
StoredCookies ==
    [a \in AccountNames |-> [session_id |-> IF a = "office" THEN "sid-office" ELSE "sid-ghost"]]

IsCredentialRequest(req) == req.url \in {"/auth/token/", "/auth/cookies/"}

\* The JSON value a body of the given shape carries when it answers req: a
\* credential record is the one stored for the account asked for, a
\* statistics payload is the one computed for the request's own selectors.
JsonValue(shape, req) ==
    [shape |-> shape,
     data |-> CASE shape = "TokenRecord" ->
                      [access_token |-> StoredTokens[req.params.account_name]]
                [] shape = "CookieMapping" -> StoredCookies[req.params.account_name]
                [] shape = "ErrorDetail" -> [detail |-> "error"]
                [] OTHER -> [answers |-> req]]

NotJson == [json |-> FALSE]
JsonBody(value) == [json |-> TRUE, value |-> value]

Response(status, body) == [kind |-> "response", status |-> status, body |-> body]
TransportError == [kind |-> "transport_error"]
Timeout == [kind |-> "timeout"]

ShapesFor(req) == IF IsCredentialRequest(req) THEN CredentialShapes ELSE StatisticsShapes

Outcomes(req) ==
    {TransportError, Timeout}
    \cup {Response(st, NotJson) : st \in Statuses}
    \cup {Response(st, JsonBody(JsonValue(sh, req))) : st \in Statuses, sh \in ShapesFor(req)}

----------------------------------------------------------------------------
(* services/api.py : what each operation makes of the outcome *)

\* httpx.Response.is_success: a 2xx status.
is_success(status) == status \in 200..299

\* What client.request / client.get raises when no response arrives; both
\* are subclasses of httpx.HTTPError.
HttpxError(outcome) ==
    IF outcome.kind = "timeout" THEN "httpx.TimeoutException" ELSE "httpx.TransportError"

\* request_to_api, lines 23-27: the decoded body whatever the status, and
\* DodoAPIError for httpx.HTTPError and json.JSONDecodeError.
request_to_api(outcome) ==
    IF outcome.kind = "response"
    THEN IF outcome.body.json THEN Return(outcome.body.value) ELSE Raise("DodoAPIError")
    ELSE Raise("DodoAPIError")

\* pydantic's parse_obj / parse_obj_as: the payload when the value has the
\* declared shape, ValidationError otherwise.
parse_obj(response_model, response_json) ==
    IF response_json.shape = response_model
    THEN Return([type |-> response_model, data |-> response_json.data])
    ELSE Raise("ValidationError")

\* A statistics operation after its await: request_to_api, then the parse,
\* which no except clause surrounds.
StatisticsResult(op, outcome) ==
    LET response_json == request_to_api(outcome)
    IN IF response_json.kind = "raise" THEN response_json
       ELSE parse_obj(ResponseModel(op), response_json.value)

\* response.json()['access_token']
access_token_item(response_json) ==
    IF response_json.shape = "TokenRecord"
    THEN Return(response_json.data.access_token)
    ELSE Raise("KeyError")

get_access_token_without_404(outcome) ==
    IF outcome.kind # "response" THEN Raise(HttpxError(outcome))
    ELSE IF is_success(outcome.status)
         THEN IF outcome.body.json THEN access_token_item(outcome.body.value)
              ELSE Raise("JSONDecodeError")
         ELSE Raise("DatabaseAPIError")

get_access_token(outcome) ==
    IF outcome.kind # "response" THEN Raise(HttpxError(outcome))
    ELSE IF is_success(outcome.status)
         THEN IF outcome.body.json THEN access_token_item(outcome.body.value)
              ELSE Raise("JSONDecodeError")
         ELSE IF outcome.status = 404 THEN Raise("NoTokenError")
              ELSE Raise("DatabaseAPIError")

get_cookies(outcome) ==
    IF outcome.kind # "response" THEN Raise(HttpxError(outcome))
    ELSE IF is_success(outcome.status)
         THEN IF outcome.body.json THEN Return(outcome.body.value)
              ELSE Raise("JSONDecodeError")
         ELSE IF outcome.status = 404 THEN Raise("NoCookiesError")
              ELSE Raise("DatabaseAPIError")

CredentialResult(op, outcome) ==
    IF op = "get_access_token" THEN get_access_token(outcome) ELSE get_cookies(outcome)

----------------------------------------------------------------------------
(* services/api.py : the operations, one action per stretch between awaits *)

\* Session 0 stands for a client that is not created by the call that uses
\* it; the code creates none.
SessionIds == 0..MaxTasks

IdleFrame ==
    [pc |-> "idle", op |-> "none", args |-> None, request |-> None, session |-> -1,
     sent |-> <<>>, outcome |-> None, result |-> None, ncalls |-> 0]

IdleWire == [pending |-> <<>>, answers |-> <<>>]

SharedSession(t) == 0

\* httpx.AsyncClient(...): a client object of its own for the task's call.
NewSession(t) == t

aexit_leaking(sess, s) == sess

\* Leaving `async with httpx.AsyncClient(...)`: the client is closed,
\* whether the block ends by return or by an exception.
aexit(sess, s) == [sess EXCEPT ![s] = "closed"]

\* A statistics operation up to its first suspend point: the request is
\* built from the arguments and the client of request_to_api is entered.
Call(t, op, a) ==
    /\ calls[t].pc = "idle"
    /\ op \in StatisticsOperations
    /\ a \in ArgumentsOf(op)
    /\ calls' = [calls EXCEPT ![t] =
                    [@ EXCEPT !.pc = "entered", !.op = op, !.args = a,
                              !.request = BuildRequest(op, a),
                              !.session = NewSession(t)]]
    /\ sessions' = [sessions EXCEPT ![NewSession(t)] = "open"]
    /\ UNCHANGED <<params, self, net>>

\* client.request(...): the request goes out on the call's session.
SendRequest(t) ==
    /\ calls[t].pc = "entered"
    /\ calls' = [calls EXCEPT ![t] =
                    [@ EXCEPT !.pc = "awaiting", !.sent = Append(@, calls[t].request)]]
    /\ net' = [net EXCEPT ![calls[t].session].pending = Append(@, calls[t].request)]
    /\ UNCHANGED <<params, self, sessions>>

\* The remote side ends the oldest pending exchange of a session.
Respond(s, o) ==
    /\ net[s].pending # <<>>
    /\ o \in Outcomes(Head(net[s].pending))
    /\ net' = [net EXCEPT ![s] = [pending |-> Tail(@.pending),
                                  answers |-> Append(@.answers, o)]]
    /\ UNCHANGED <<params, self, calls, sessions>>

ReceiveStatisticsRetrying(t) ==
    /\ calls[t].pc = "awaiting"
    /\ calls[t].op \in StatisticsOperations
    /\ net[calls[t].session].answers # <<>>
    /\ LET o == Head(net[calls[t].session].answers)
           retry == o.kind # "response" /\ Len(calls[t].sent) < 2
       IN /\ calls' = [calls EXCEPT ![t] =
                IF retry
                THEN [@ EXCEPT !.sent = Append(@, calls[t].request)]
                ELSE [@ EXCEPT !.pc = "done", !.outcome = o,
                               !.result = StatisticsResult(calls[t].op, o)]]
          /\ net' = [net EXCEPT ![calls[t].session] =
                [pending |-> IF retry THEN Append(@.pending, calls[t].request)
                             ELSE @.pending,
                 answers |-> Tail(@.answers)]]
          /\ sessions' = IF retry THEN sessions ELSE aexit(sessions, calls[t].session)
    /\ UNCHANGED <<params, self>>

\* The await of a statistics operation ends: request_to_api returns or
\* raises, its client is left, and the operation parses what it got.
ReceiveStatistics(t) ==
    /\ calls[t].pc = "awaiting"
    /\ calls[t].op \in StatisticsOperations
    /\ net[calls[t].session].answers # <<>>
    /\ LET o == Head(net[calls[t].session].answers)
       IN calls' = [calls EXCEPT ![t] =
                [@ EXCEPT !.pc = "done", !.outcome = o,
                          !.result = StatisticsResult(calls[t].op, o)]]
    /\ net' = [net EXCEPT ![calls[t].session].answers = Tail(@)]
    /\ sessions' = aexit(sessions, calls[t].session)
    /\ UNCHANGED <<params, self>>

\* `async with async_client(base_url) as client:` is entered by the caller.
OpenClient(t) ==
    /\ calls[t].pc = "idle"
    /\ calls' = [calls EXCEPT ![t] =
                    [@ EXCEPT !.pc = "client_open", !.session = NewSession(t)]]
    /\ sessions' = [sessions EXCEPT ![NewSession(t)] = "open"]
    /\ UNCHANGED <<params, self, net>>

\* get_access_token(client, account_name) or get_cookies(client,
\* account_name) up to its await: client.get sends the request on the
\* caller's client.  A caller makes its next call after the last returned.
CredentialCall(t, op, a) ==
    /\ \/ calls[t].pc = "client_open"
       \/ calls[t].pc = "returned" /\ calls[t].result.kind = "return"
    /\ calls[t].ncalls < MaxCallsPerClient
    /\ op \in CredentialOperations
    /\ a \in ArgumentsOf(op)
    /\ LET req == BuildRequest(op, a)
       IN /\ calls' = [calls EXCEPT ![t] =
                    [@ EXCEPT !.pc = "awaiting", !.op = op, !.args = a, !.request = req,
                              !.sent = <<req>>, !.outcome = None, !.result = None,
                              !.ncalls = @ + 1]]
          /\ net' = [net EXCEPT ![calls[t].session].pending = Append(@, req)]
    /\ UNCHANGED <<params, self, sessions>>

\* The await of a credential operation ends: it returns or raises, and the
\* client stays as the caller opened it.
ReceiveCredential(t) ==
    /\ calls[t].pc = "awaiting"
    /\ calls[t].op \in CredentialOperations
    /\ net[calls[t].session].answers # <<>>
    /\ LET o == Head(net[calls[t].session].answers)
       IN calls' = [calls EXCEPT ![t] =
                [@ EXCEPT !.pc = "returned", !.outcome = o,
                          !.result = CredentialResult(calls[t].op, o)]]
    /\ net' = [net EXCEPT ![calls[t].session].answers = Tail(@)]
    /\ UNCHANGED <<params, self, sessions>>

\* The caller's async_client block is left, by its end or by the exception
\* of a credential operation: async_client leaves httpx.AsyncClient.
CloseClient(t) ==
    /\ calls[t].pc \in {"client_open", "returned"}
    /\ calls' = [calls EXCEPT ![t].pc = "closed"]
    /\ sessions' = aexit(sessions, calls[t].session)
    /\ UNCHANGED <<params, self, net>>

----------------------------------------------------------------------------
(* Specifications *)

NoParams == [report_type |-> "STATISTICS", region |-> "Moscow",
             enabled_unit_ids |-> {}, all_units |-> <<>>]

InitApi ==
    /\ calls = [t \in Tasks |-> IdleFrame]
    /\ sessions = [s \in SessionIds |-> "unopened"]
    /\ net = [s \in SessionIds |-> IdleWire]

\* One caller: a statistics call, or an async_client block of credential
\* calls, against a remote side that answers in every way.
Init ==
    /\ params = NoParams
    /\ self = NoObject
    /\ InitApi

RemoteAnswers(s) ==
    /\ net[s].pending # <<>>
    /\ \E o \in Outcomes(Head(net[s].pending)) : Respond(s, o)

Next ==
    \/ \E op \in StatisticsOperations : \E a \in ArgumentsOf(op) : Call(Caller, op, a)
    \/ SendRequest(Caller)
    \/ \E s \in SessionIds : RemoteAnswers(s)
    \/ ReceiveStatistics(Caller)
    \/ OpenClient(Caller)
    \/ \E op \in CredentialOperations : \E a \in ArgumentsOf(op) : CredentialCall(Caller, op, a)
    \/ ReceiveCredential(Caller)
    \/ CloseClient(Caller)

Spec == Init /\ [][Next]_vars

\* Several tasks run statistics calls at once; two of the operations (one
\* binding, which the tasks may share, and one ad hoc operation) and the
\* outcomes that differ in how the call ends.
ConcurrentOperations == {"get_kitchen_performance_statistics", "get_revenue_statistics"}

ConcurrentOutcomes(req) ==
    {TransportError, Timeout, Response(200, NotJson)}
    \cup {Response(st, JsonBody(JsonValue(sh, req)))
            : st \in {200, 500},
              sh \in {"KitchenPerformanceStatistics", "RevenueStatistics", "ErrorDetail"}}

RemoteAnswersConcurrent(s) ==
    /\ net[s].pending # <<>>
    /\ \E o \in ConcurrentOutcomes(Head(net[s].pending)) : Respond(s, o)

NextConcurrent ==
    \/ \E t \in Tasks : \E op \in ConcurrentOperations : \E a \in ArgumentsOf(op) :
            Call(t, op, a)
    \/ \E t \in Tasks : SendRequest(t)
    \/ \E s \in SessionIds : RemoteAnswersConcurrent(s)
    \/ \E t \in Tasks : ReceiveStatistics(t)

SpecConcurrent == Init /\ [][NextConcurrent]_vars

\* One UnitsMarkup is constructed from drawn arguments.
InitMarkup ==
    /\ params \in [report_type : ReportTypes, region : Regions,
                   enabled_unit_ids : SUBSET UnitIds,
                   all_units : SeqsUpTo(Units, MaxUnits)]
    /\ self = NoObject
    /\ InitApi

NextMarkup == UnitsMarkup

SpecMarkup == InitMarkup /\ [][NextMarkup]_vars

----------------------------------------------------------------------------
(* What a caller observes *)

RECURSIVE Flatten(_)
Flatten(rows) == IF rows = <<>> THEN <<>> ELSE Head(rows) \o Flatten(Tail(rows))

IsUnitEntry(button) == button.kind = "SwitchUnitStatus"

\* The per-unit entries of the keyboard, in keyboard order.
UnitEntries(obj) == SelectSeq(Flatten(obj.inline_keyboard), IsUnitEntry)

Offered(obj, kind) ==
    \E k \in DOMAIN Flatten(obj.inline_keyboard) : Flatten(obj.inline_keyboard)[k].kind = kind

TurnAllOnOffered(obj) == Offered(obj, "EnableAllUnitsByRegion")
TurnAllOffOffered(obj) == Offered(obj, "DisableAllUnitsByRegion")

CatalogIds == {params.all_units[k].id : k \in DOMAIN params.all_units}

StatisticsDone(t) == calls[t].pc = "done" /\ calls[t].op \in StatisticsOperations

CredentialEnded(t) ==
    calls[t].pc \in {"returned", "closed"} /\ calls[t].op \in CredentialOperations

----------------------------------------------------------------------------
(* Claims *)

\* C1: every statistics call whose response has a non-success status, a
\* non-JSON body or a JSON body of another shape than the declared payload
\* type ends by raising DodoAPIError, and never returns a payload.
C1_BadResponseRaisesDodoAPIError ==
    \A t \in Tasks :
        (/\ StatisticsDone(t)
         /\ calls[t].outcome.kind = "response"
         /\ \/ ~is_success(calls[t].outcome.status)
            \/ ~calls[t].outcome.body.json
            \/ calls[t].outcome.body.value.shape # ResponseModel(calls[t].op))
        => calls[t].result = Raise("DodoAPIError")

\* C2: a credential call answered 404 raises NoTokenError (get_access_token)
\* or NoCookiesError (get_cookies); answered with a found record, it returns
\* exactly the stored access token, respectively the stored cookie mapping.
C2_NotFoundAndFound ==
    \A t \in Tasks :
        (CredentialEnded(t) /\ calls[t].outcome.kind = "response") =>
            LET o == calls[t].outcome
                account == calls[t].args.account_name
            IN /\ o.status = 404 =>
                    calls[t].result =
                        Raise(IF calls[t].op = "get_access_token"
                              THEN "NoTokenError" ELSE "NoCookiesError")
               /\ (/\ calls[t].op = "get_access_token"
                   /\ is_success(o.status) /\ o.body.json
                   /\ o.body.value.shape = "TokenRecord")
                  => calls[t].result = Return(StoredTokens[account])
               /\ (/\ calls[t].op = "get_cookies"
                   /\ is_success(o.status) /\ o.body.json
                   /\ o.body.value.shape = "CookieMapping")
                  => /\ calls[t].result.kind = "return"
                     /\ calls[t].result.value.data = StoredCookies[account]

C2_Witness ==
    \E t \in Tasks :
        /\ CredentialEnded(t)
        /\ calls[t].op = "get_access_token"
        /\ calls[t].args.account_name = "office"
        /\ calls[t].outcome.kind = "response"
        /\ calls[t].outcome.status = 200
        /\ calls[t].result = Return("at-office")

\* C3: a credential call whose exchange ends in a non-success status other
\* than 404, a transport failure or a timeout raises DatabaseAPIError.
C3_OtherOutcomesRaiseDatabaseAPIError ==
    \A t \in Tasks :
        (/\ CredentialEnded(t)
         /\ \/ calls[t].outcome.kind \in {"transport_error", "timeout"}
            \/ /\ calls[t].outcome.kind = "response"
               /\ ~is_success(calls[t].outcome.status)
               /\ calls[t].outcome.status # 404)
        => calls[t].result = Raise("DatabaseAPIError")

\* C4: a statistics call sends exactly one request: none before its send,
\* one from then on, also after a timeout or a transport failure, which
\* make it raise DodoAPIError; nothing of it is left on the wire at its end.
C4_ExactlyOneRequest ==
    \A t \in Tasks :
        calls[t].op \in StatisticsOperations =>
            /\ calls[t].pc = "entered" => calls[t].sent = <<>>
            /\ calls[t].pc \in {"awaiting", "done"} => calls[t].sent = <<calls[t].request>>
            /\ Len(net[calls[t].session].pending) + Len(net[calls[t].session].answers)
                    <= (IF calls[t].pc = "awaiting" THEN 1 ELSE 0)
            /\ (/\ calls[t].pc = "done"
                /\ calls[t].outcome.kind \in {"transport_error", "timeout"})
               => calls[t].result = Raise("DodoAPIError")

C4_Witness ==
    \E t \in Tasks :
        /\ StatisticsDone(t)
        /\ calls[t].outcome.kind = "timeout"
        /\ calls[t].result = Raise("DodoAPIError")
        /\ Len(calls[t].sent) = 1

\* C5 as stated: every operation, of the dispatcher and of the credential
\* resolver alike, has released the session it used by the time it returns
\* or raises.
C5_EveryOperationReleasesItsSession ==
    \A t \in Tasks :
        (StatisticsDone(t) \/ (calls[t].pc = "returned" /\ calls[t].op \in CredentialOperations))
        => sessions[calls[t].session] = "closed"

\* C5 as amended: a statistics operation holds a session of its own open
\* while it runs and has closed it, after exactly one request, when it
\* returns or raises; a credential operation sends exactly one request on
\* the session its caller opened and leaves that session open, and the
\* session is closed once the caller's async_client block is left.
C5_SessionsReleased ==
    /\ \A t \in Tasks :
        /\ calls[t].op \in StatisticsOperations =>
            /\ calls[t].pc \in {"entered", "awaiting"} => sessions[calls[t].session] = "open"
            /\ calls[t].pc = "done" =>
                    sessions[calls[t].session] = "closed" /\ Len(calls[t].sent) = 1
        /\ calls[t].pc = "client_open" => sessions[calls[t].session] = "open"
        /\ calls[t].op \in CredentialOperations =>
            /\ calls[t].pc \in {"awaiting", "returned"} =>
                    sessions[calls[t].session] = "open" /\ Len(calls[t].sent) = 1
        /\ calls[t].pc = "closed" => sessions[calls[t].session] = "closed"
    /\ \A s \in SessionIds :
        sessions[s] = "open" =>
            \E t \in Tasks : calls[t].session = s
                             /\ calls[t].pc \in {"entered", "awaiting", "client_open", "returned"}

C5_Witness ==
    \E t \in Tasks :
        /\ calls[t].pc = "closed"
        /\ calls[t].op = "get_cookies"
        /\ calls[t].result.kind = "raise"
        /\ calls[t].ncalls = 2
        /\ sessions[calls[t].session] = "closed"

\* C6: with an empty all_units, whatever enabled_unit_ids holds, the
\* keyboard has no per-unit entry and offers neither "turn all on" nor
\* "turn all off".
C6_EmptyCatalogOffersNothing ==
    (self.built /\ params.all_units = <<>>) =>
        /\ UnitEntries(self) = <<>>
        /\ ~TurnAllOnOffered(self)
        /\ ~TurnAllOffOffered(self)

\* C7: "turn all on" is offered exactly when all_unit_ids - enabled_unit_ids
\* is non-empty, and "turn all off" exactly when at least one enabled unit
\* exists, read either as "enabled_unit_ids is non-empty" or as "some unit
\* of the catalog is enabled".
C7_BatchActionsMatchTheSets ==
    self.built =>
        /\ TurnAllOnOffered(self) <=> (CatalogIds \ params.enabled_unit_ids # {})
        /\ \/ TurnAllOffOffered(self) <=> (params.enabled_unit_ids # {})
           \/ TurnAllOffOffered(self) <=> (CatalogIds \cap params.enabled_unit_ids # {})

\* C8: disabled_unit_ids is all_unit_ids minus enabled_unit_ids: it holds
\* catalog ids only, shares no id with enabled_unit_ids, and every unit of
\* the catalog has its id in exactly one of the two sets.
C8_DisabledIsTheComplement ==
    self.built =>
        LET disabled == disabled_unit_ids(self)
        IN /\ disabled = {x \in UnitIds : x \in CatalogIds /\ x \notin params.enabled_unit_ids}
           /\ disabled \cap params.enabled_unit_ids = {}
           /\ disabled \cup (params.enabled_unit_ids \cap CatalogIds) = CatalogIds
           /\ \A k \in DOMAIN params.all_units :
                (params.all_units[k].id \in disabled)
                    # (params.all_units[k].id \in params.enabled_unit_ids)

C8_Witness ==
    /\ self.built
    /\ disabled_unit_ids(self) = {0, 2}
    /\ params.enabled_unit_ids = {1, 3}
    /\ CatalogIds = {0, 1, 2}

\* C9: the keyboard holds one entry per element of all_units, in the order
\* of all_units, with that unit's id and name, tagged enabled exactly when
\* its id is in enabled_unit_ids; ids of enabled_unit_ids that are not in
\* all_units add no entry and change no tag.
C9_OneEntryPerUnit ==
    self.built =>
        LET entries == UnitEntries(self)
        IN /\ Len(entries) = Len(params.all_units)
           /\ \A k \in DOMAIN params.all_units :
                /\ entries[k].unit_id = params.all_units[k].id
                /\ entries[k].unit_name = params.all_units[k].name
                /\ entries[k].is_unit_enabled
                    <=> (params.all_units[k].id \in params.enabled_unit_ids)
                /\ entries[k].report_type = params.report_type
                /\ entries[k].region = params.region
           /\ \A k \in 1..Len(entries) :
                Flatten(self.inline_keyboard)[k] = entries[k]

C9_Witness ==
    /\ self.built
    /\ Len(params.all_units) = 3
    /\ params.all_units[1].id = 2 /\ params.all_units[2].id = 0 /\ params.all_units[3].id = 2
    /\ params.enabled_unit_ids = {2, 3}
    /\ Len(UnitEntries(self)) = 3

\* C10: concurrent statistics calls do not affect one another: each call
\* keeps the request built from its own arguments, sends it on a session no
\* other call uses, receives an outcome of its own request, and ends with
\* the result that outcome alone determines.
C10_ConcurrentCallsIndependent ==
    /\ \A t \in Tasks :
        calls[t].pc # "idle" =>
            /\ calls[t].request.url =
                    (IF calls[t].op = "get_revenue_statistics"
                     THEN "/v1/statistics/revenue"
                     ELSE "/v1/statistics/kitchen/performance")
            /\ IF calls[t].op = "get_revenue_statistics"
               THEN calls[t].request.params.unit_ids = calls[t].args.unit_ids
               ELSE /\ calls[t].request.body.unit_ids = calls[t].args.unit_ids
                    /\ calls[t].request.body.cookies = calls[t].args.cookies
            /\ \A k \in DOMAIN net[calls[t].session].pending :
                    net[calls[t].session].pending[k] = calls[t].request
            /\ \A u \in Tasks \ {t} :
                    calls[u].pc # "idle" => calls[u].session # calls[t].session
    /\ \A t \in Tasks :
        calls[t].pc = "done" =>
            /\ calls[t].outcome \in ConcurrentOutcomes(calls[t].request)
            /\ calls[t].result.kind = "return" =>
                /\ calls[t].outcome.kind = "response"
                /\ calls[t].result.value.data.answers = calls[t].request
                /\ calls[t].result.value.type = ResponseModel(calls[t].op)
            /\ calls[t].result.kind = "raise" =>
                calls[t].result.exc =
                    (IF /\ calls[t].outcome.kind = "response"
                        /\ calls[t].outcome.body.json
                     THEN "ValidationError" ELSE "DodoAPIError")

C10_Witness ==
    \E t, u \in Tasks :
        /\ t # u
        /\ calls[t].op = "get_kitchen_performance_statistics"
        /\ calls[u].op = "get_kitchen_performance_statistics"
        /\ calls[t].args # calls[u].args
        /\ calls[t].pc = "done" /\ calls[t].result.kind = "return"
        /\ calls[u].pc = "awaiting" /\ net[calls[u].session].pending # <<>>

====
